---- MODULE Spec2Model ----
(***************************************************************************)
(* A model of zfs_manager.py: the snapshot naming codec, the enumerator,   *)
(* the tiered retention policy and the create/prune run over a Snapshot    *)
(* Store whose calls may fail.                                             *)
(*                                                                         *)
(* A snapshot name is a sequence of tokens.  A token is a piece of text    *)
(* (Txt) or the fifteen characters of a timestamp written as its five      *)
(* numeric fields (Stamp).  A datetime is the tuple <<Y, M, D, h, mi>>,    *)
(* the wall clock has a sixth field, the seconds.                          *)
(***************************************************************************)
EXTENDS Integers, Sequences, FiniteSets, TLC

VARIABLES
  CONFIG,            \* the dictionary load_config read
  store,             \* the names the Snapshot Store holds, oldest creation first
  now,               \* datetime.now() of create_snapshots
  pc,                \* where the run stands
  i,                 \* the index of the dataset a loop is at (the pass, under SpecPolicy)
  all_snapshots,     \* the dictionary of the dataset being pruned, as its items
  snaps_to_destroy,  \* the set apply_retention_policy returned
  pending,           \* the names execute_prune has still to visit
  tiers,             \* the sets the three rules returned
  createReqs,        \* the names passed to run_zfs_command(["snapshot", ..])
  listReqs,          \* the calls run_zfs_command(["list", ..]) and whether they returned
  destroyReqs,       \* the calls run_zfs_command(["destroy", ..]) and their outcome
  crashedBy          \* the command whose result raised the uncaught TypeError

vars == <<CONFIG, store, now, pc, i, all_snapshots, snaps_to_destroy, pending,
          tiers, createReqs, listReqs, destroyReqs, crashedBy>>

----------------------------------------------------------------------------
(* Tokens and names *)

Txt(s) == [s |-> s, ts |-> <<>>]

Stamp(f) == [s |-> "", ts |-> f]

AT == Txt("@")

US == Txt("_")

SLASH == Txt("/")

----------------------------------------------------------------------------
(* The calendar arithmetic of datetime *)

IsLeap(y) == (y % 4 = 0 /\ y % 100 # 0) \/ y % 400 = 0

DaysInMonth(y, m) ==
  IF m = 2 THEN (IF IsLeap(y) THEN 29 ELSE 28)
  ELSE IF m \in {4, 6, 9, 11} THEN 30 ELSE 31

RECURSIVE DaysBeforeMonth(_, _)
DaysBeforeMonth(y, m) ==
  IF m <= 1 THEN 0 ELSE DaysBeforeMonth(y, m - 1) + DaysInMonth(y, m - 1)

DaysBeforeYear(y) ==
  (y - 1) * 365 + (y - 1) \div 4 - (y - 1) \div 100 + (y - 1) \div 400

\* tm_yday + 1: the day of the year, 1 for the first of January
DayOfYear(dt) == DaysBeforeMonth(dt[1], dt[2]) + dt[3]

toordinal(dt) == DaysBeforeYear(dt[1]) + DayOfYear(dt)

\* Monday is 0, Sunday is 6
weekday(dt) == (toordinal(dt) + 6) % 7

\* dt.strftime('%Y-%U'): the year and the week of the year counted from the
\* year's first Sunday; the days before it are week 0
strftime_YU(dt) ==
  <<dt[1], ((DayOfYear(dt) - 1) + 7 - ((weekday(dt) + 1) % 7)) \div 7>>

\* dt.strftime('%Y-%m')
strftime_Ym(dt) == <<dt[1], dt[2]>>

\* now.strftime('%Y-%m-%d-%H%M'): the seconds are dropped
strftime_stamp(t) == Stamp(SubSeq(t, 1, 5))

\* datetime.strptime(timestamp, '%Y-%m-%d-%H%M') raises ValueError unless the
\* text is one timestamp with every field in range
strptime_ok(text) ==
  /\ Len(text) = 1
  /\ Len(text[1].ts) = 5
  /\ LET f == text[1].ts IN
       /\ f[1] \in 1..9999
       /\ f[2] \in 1..12
       /\ f[3] \in 1..DaysInMonth(f[1], f[2])
       /\ f[4] \in 0..23
       /\ f[5] \in 0..59

strptime(text) == text[1].ts

\* datetime's order: the fields compared left to right
DtLess(a, b) ==
  \E k \in 1..5 : a[k] < b[k] /\ \A j \in 1..(k - 1) : a[j] = b[j]

----------------------------------------------------------------------------
(* The configuration *)

\* CONFIG.get(key, default), and retention.get(key, default)
Get(dict, key, default) == IF key \in DOMAIN dict THEN dict[key] ELSE default

EmptyDict == [k \in {} |-> 0]

DefaultDaily == 7

DefaultWeekly == 4

DefaultMonthly == 3

----------------------------------------------------------------------------
(* parse_snapshot_name *)

\* the positions of a token in a name
Positions(name, tok) == {k \in 1..Len(name) : name[k] = tok}

Min(S) == CHOOSE x \in S : \A y \in S : x <= y

NoParse == [ok |-> FALSE, dataset |-> <<>>, prefix |-> <<>>, dt |-> <<>>]

Max(S) == CHOOSE x \in S : \A y \in S : x >= y

\* as with rsplit('@', 1): the name is cut at its last '@'
parse_snapshot_name_rsplit(snap_name_full, cfg) ==
  LET ats == Positions(snap_name_full, AT) IN
  IF ats = {} THEN NoParse
  ELSE
    LET at == Max(ats)
        dataset_part == SubSeq(snap_name_full, 1, at - 1)
        snap_part == SubSeq(snap_name_full, at + 1, Len(snap_name_full))
        uss == Positions(snap_part, US)
    IN
    IF uss = {} THEN NoParse
    ELSE
      LET us == Min(uss)
          prefix == SubSeq(snap_part, 1, us - 1)
          timestamp == SubSeq(snap_part, us + 1, Len(snap_part))
      IN
      IF prefix # cfg.snapshot_prefix THEN NoParse
      ELSE IF ~strptime_ok(timestamp) THEN NoParse
      ELSE [ok |-> TRUE, dataset |-> dataset_part, prefix |-> prefix,
            dt |-> strptime(timestamp)]

parse_snapshot_name(snap_name_full, cfg) ==
  LET ats == Positions(snap_name_full, AT) IN
  IF Cardinality(ats) # 1 THEN NoParse   \* split('@') does not give two parts
  ELSE
    LET at == Min(ats)
        dataset_part == SubSeq(snap_name_full, 1, at - 1)
        snap_part == SubSeq(snap_name_full, at + 1, Len(snap_name_full))
        uss == Positions(snap_part, US)
    IN
    IF uss = {} THEN NoParse             \* split('_', 1) gives one part
    ELSE
      LET us == Min(uss)
          prefix == SubSeq(snap_part, 1, us - 1)
          timestamp == SubSeq(snap_part, us + 1, Len(snap_part))
      IN
      IF prefix # cfg.snapshot_prefix THEN NoParse
      ELSE IF ~strptime_ok(timestamp) THEN NoParse
      ELSE [ok |-> TRUE, dataset |-> dataset_part, prefix |-> prefix,
            dt |-> strptime(timestamp)]

----------------------------------------------------------------------------
(* The retention policy *)

RECURSIVE InsertDesc(_, _)
InsertDesc(s, x) ==
  IF s = <<>> THEN <<x>>
  ELSE IF DtLess(Head(s)[2], x[2]) THEN <<x>> \o s
  ELSE <<Head(s)>> \o InsertDesc(Tail(s), x)

RECURSIVE SortFrom(_, _)
SortFrom(acc, rest) ==
  IF rest = <<>> THEN acc ELSE SortFrom(InsertDesc(acc, Head(rest)), Tail(rest))

\* sorted(all_snapshots.items(), key=lambda x: x[1], reverse=True): stable,
\* equal datetimes keep the order of the dictionary
SortedNewestFirst(items) == SortFrom(<<>>, items)

\* as with sorted_snaps[1:num_to_keep + 1]
DailySlice_SkipsNewest(sorted_snaps, num_to_keep) ==
  {sorted_snaps[k][1] :
     k \in {j \in 1..Len(sorted_snaps) : j >= 2 /\ j <= num_to_keep + 1}}

\* as with sorted_snaps[:num_to_keep + 1]
DailySlice_OneMore(sorted_snaps, num_to_keep) ==
  {sorted_snaps[k][1] :
     k \in {j \in 1..Len(sorted_snaps) : j <= num_to_keep + 1}}

apply_daily_rule(sorted_snaps, num_to_keep) ==
  {sorted_snaps[k][1] :
     k \in {j \in 1..Len(sorted_snaps) : j <= num_to_keep}}

RECURSIVE WeeklyWalk(_, _, _, _, _)
WeeklyWalk(sorted_snaps, num_to_keep, k, snaps_to_keep, kept_weeks) ==
  IF k > Len(sorted_snaps) THEN snaps_to_keep
  ELSE
    LET week_num == strftime_YU(sorted_snaps[k][2]) IN
    IF Cardinality(kept_weeks) < num_to_keep /\ week_num \notin kept_weeks
    THEN WeeklyWalk(sorted_snaps, num_to_keep, k + 1,
                    snaps_to_keep \cup {sorted_snaps[k][1]},
                    kept_weeks \cup {week_num})
    ELSE WeeklyWalk(sorted_snaps, num_to_keep, k + 1, snaps_to_keep, kept_weeks)

apply_weekly_rule(sorted_snaps, num_to_keep) ==
  WeeklyWalk(sorted_snaps, num_to_keep, 1, {}, {})

RECURSIVE MonthlyWalk(_, _, _, _, _)
MonthlyWalk(sorted_snaps, num_to_keep, k, snaps_to_keep, kept_months) ==
  IF k > Len(sorted_snaps) THEN snaps_to_keep
  ELSE
    LET month_num == strftime_Ym(sorted_snaps[k][2]) IN
    IF Cardinality(kept_months) < num_to_keep /\ month_num \notin kept_months
    THEN MonthlyWalk(sorted_snaps, num_to_keep, k + 1,
                     snaps_to_keep \cup {sorted_snaps[k][1]},
                     kept_months \cup {month_num})
    ELSE MonthlyWalk(sorted_snaps, num_to_keep, k + 1, snaps_to_keep, kept_months)

\* as without the test len(kept_months) < num_to_keep
apply_monthly_rule_NoCap(sorted_snaps, num_to_keep) ==
  MonthlyWalk(sorted_snaps, Len(sorted_snaps), 1, {}, {})

apply_monthly_rule(sorted_snaps, num_to_keep) ==
  MonthlyWalk(sorted_snaps, num_to_keep, 1, {}, {})

Names(items) == {items[k][1] : k \in 1..Len(items)}

NoTiers == [daily |-> {}, weekly |-> {}, monthly |-> {}]

\* the three sets that apply_retention_policy unites into snaps_to_keep;
\* none is computed when the retention dictionary is empty
RetentionTiers(items, cfg) ==
  LET retention == Get(cfg, "retention", EmptyDict)
      sorted_snaps == SortedNewestFirst(items)
  IN
  IF DOMAIN retention = {} THEN NoTiers
  ELSE [daily   |-> apply_daily_rule(sorted_snaps,
                                     Get(retention, "daily", DefaultDaily)),
        weekly  |-> apply_weekly_rule(sorted_snaps,
                                      Get(retention, "weekly", DefaultWeekly)),
        monthly |-> apply_monthly_rule(sorted_snaps,
                                       Get(retention, "monthly", DefaultMonthly))]

apply_retention_policy(items, cfg) ==
  LET retention == Get(cfg, "retention", EmptyDict)
      t == RetentionTiers(items, cfg)
  IN
  IF DOMAIN retention = {} THEN {}
  ELSE Names(items) \ (t.daily \cup t.weekly \cup t.monthly)

----------------------------------------------------------------------------
(* run_zfs_command and the Snapshot Store *)

\* The value run_zfs_command hands back.  isNone: the except branch was taken
\* and the function fell off its end.  contacted: subprocess.run was reached.
Returned(success, contacted) ==
  [isNone |-> FALSE, success |-> success, contacted |-> contacted]

ReturnedNone == [isNone |-> TRUE, success |-> FALSE, contacted |-> TRUE]

\* as with CONFIG.get("dry_run", False); storeOk: whether zfs exits with 0
run_zfs_command_DefaultOff(cmd, cfg, storeOk) ==
  IF Get(cfg, "dry_run", FALSE) /\ cmd = "destroy" THEN Returned(TRUE, FALSE)
  ELSE IF storeOk THEN Returned(TRUE, TRUE)
  ELSE ReturnedNone

run_zfs_command(cmd, cfg, storeOk) ==
  IF Get(cfg, "dry_run", TRUE) /\ cmd = "destroy" THEN Returned(TRUE, FALSE)
  ELSE IF storeOk THEN Returned(TRUE, TRUE)
  ELSE ReturnedNone

\* "success, _ = run_zfs_command(...)" raises TypeError on None
CreateUnpackFails(r) == r.isNone

ListUnpackFails(r) == r.isNone

\* as with "success, _ = run_zfs_command(["destroy", snap_name])"
DestroyUnpackFails_Tuple(r) == r.isNone

\* execute_prune drops the value run_zfs_command returns
DestroyUnpackFails(r) == FALSE

StartsWith(line, head) ==
  Len(line) >= Len(head) /\ SubSeq(line, 1, Len(head)) = head

RECURSIVE Filter(_, _)
Filter(seq, keep) ==
  IF seq = <<>> THEN <<>>
  ELSE IF Head(seq) \in keep THEN <<Head(seq)>> \o Filter(Tail(seq), keep)
  ELSE Filter(Tail(seq), keep)

Range(seq) == {seq[k] : k \in 1..Len(seq)}

HeaderLine == <<Txt("NAME")>>

\* zfs list -t snapshot -o name,creation -s creation -r dataset: a header
\* line, then the names under the dataset, oldest creation first
StoreList(st, dataset) ==
  LET under == Filter(st, {n \in Range(st) : StartsWith(n, dataset)}) IN
  IF under = <<>> THEN <<>> ELSE <<HeaderLine>> \o under

\* managed_snapshots[full_name] = dt
DictSet(items, name, dt) ==
  IF \E k \in 1..Len(items) : items[k][1] = name
  THEN [k \in 1..Len(items) |->
          IF items[k][1] = name THEN <<name, dt>> ELSE items[k]]
  ELSE Append(items, <<name, dt>>)

RECURSIVE ManagedFrom(_, _, _, _)
ManagedFrom(output, dataset, cfg, managed_snapshots) ==
  IF output = <<>> THEN managed_snapshots
  ELSE
    LET line == Head(output)
        r == parse_snapshot_name(line, cfg)
    IN
    IF StartsWith(line, dataset) /\ AT \in Range(line)
       /\ r.ok /\ r.prefix = cfg.snapshot_prefix
    THEN ManagedFrom(Tail(output), dataset, cfg,
                     DictSet(managed_snapshots, line, r.dt))
    ELSE ManagedFrom(Tail(output), dataset, cfg, managed_snapshots)

\* the dictionary get_managed_snapshots returns when the listing succeeds
get_managed_snapshots(dataset, output, cfg) ==
  ManagedFrom(output, dataset, cfg, <<>>)

\* f"{dataset}@{CONFIG['snapshot_prefix']}_{timestamp}"
SnapshotName(dataset, cfg, t) ==
  dataset \o <<AT>> \o cfg.snapshot_prefix \o <<US, strftime_stamp(t)>>

Datasets(cfg) == Get(cfg, "datasets", <<>>)

----------------------------------------------------------------------------
(* The configurations and Store contents the runs start from *)

Prefix == <<Txt("autosnap")>>

TANK == <<Txt("tank")>>

CHILD == <<Txt("tank"), SLASH, Txt("child")>>

Named(dataset, prefix, f) == dataset \o <<AT>> \o prefix \o <<US, Stamp(f)>>

\* snapshots this program made on earlier runs, oldest first
EarlierSnapshots ==
  << Named(TANK,  Prefix, <<2025, 11, 30, 0, 0>>),
     Named(CHILD, Prefix, <<2025, 11, 30, 0, 0>>),
     Named(TANK,  Prefix, <<2025, 12, 31, 23, 59>>),
     Named(CHILD, Prefix, <<2025, 12, 31, 23, 59>>) >>

\* names the listing of tank shows that are not this program's: another
\* prefix, a timestamp that is no timestamp, a day that does not exist, no
\* '_', two '@', no '@'
ForeignNames ==
  << Named(TANK, <<Txt("manual")>>, <<2025, 11, 29, 0, 0>>),
     TANK \o <<AT>> \o Prefix \o <<US, Txt("yesterday")>>,
     Named(TANK, Prefix, <<2025, 2, 30, 0, 0>>),
     TANK \o <<AT, Txt("autosnap20251129")>>,
     TANK \o <<AT, Txt("x"), AT>> \o Prefix \o <<US, Stamp(<<2025, 11, 29, 0, 0>>)>>,
     TANK \o <<Txt("#")>> \o Prefix \o <<US, Stamp(<<2025, 11, 29, 0, 0>>)>> >>

ForeignChoices ==
  {{}, Range(ForeignNames)} \cup {{n} : n \in Range(ForeignNames)}

InitialStores ==
  {Filter(ForeignNames \o EarlierSnapshots, f \cup e) :
     f \in ForeignChoices, e \in SUBSET Range(EarlierSnapshots)}

Clock == {<<2026, 1, 1, 0, 0, 30>>, <<2025, 12, 31, 23, 59, 59>>}

DryRunOptions == {EmptyDict, "dry_run" :> TRUE, "dry_run" :> FALSE}

DatasetOptions ==
  {EmptyDict, "datasets" :> <<TANK>>, "datasets" :> <<TANK, CHILD>>}

RunRetentionOptions ==
  {EmptyDict,
   "retention" :> [daily |-> 1, weekly |-> 0, monthly |-> 0],
   "retention" :> [daily |-> 0, weekly |-> 0, monthly |-> 0],
   "retention" :> [daily |-> 0]}

RunConfigs ==
  {[snapshot_prefix |-> Prefix] @@ d @@ ds @@ r :
     d \in DryRunOptions, ds \in DatasetOptions, r \in RunRetentionOptions}

----------------------------------------------------------------------------
(* The run: create_snapshots, then prune_snapshots *)

Init ==
  /\ CONFIG \in RunConfigs
  /\ store \in InitialStores
  /\ now \in Clock
  /\ pc = "create"
  /\ i = 1
  /\ all_snapshots = <<>>
  /\ snaps_to_destroy = {}
  /\ pending = {}
  /\ tiers = NoTiers
  /\ createReqs = <<>>
  /\ listReqs = <<>>
  /\ destroyReqs = {}
  /\ crashedBy = ""

\* one turn of the loop of create_snapshots; the Store refuses a name it holds
CreateSnapshot ==
  /\ pc = "create"
  /\ i <= Len(Datasets(CONFIG))
  /\ LET full_snap_name == SnapshotName(Datasets(CONFIG)[i], CONFIG, now) IN
     \E storeOk \in BOOLEAN :
       /\ storeOk => full_snap_name \notin Range(store)
       /\ LET r == run_zfs_command("snapshot", CONFIG, storeOk) IN
          /\ createReqs' = Append(createReqs, full_snap_name)
          /\ store' = IF r.contacted /\ storeOk
                      THEN Append(store, full_snap_name) ELSE store
          /\ IF CreateUnpackFails(r)
             THEN pc' = "crashed" /\ crashedBy' = "snapshot" /\ i' = i
             ELSE pc' = pc /\ crashedBy' = crashedBy /\ i' = i + 1
  /\ UNCHANGED <<CONFIG, now, all_snapshots, snaps_to_destroy, pending, tiers,
                 listReqs, destroyReqs>>

\* create_snapshots returns and prune_snapshots starts
CreateFinished ==
  /\ pc = "create"
  /\ i > Len(Datasets(CONFIG))
  /\ pc' = "prune"
  /\ i' = 1
  /\ UNCHANGED <<CONFIG, store, now, all_snapshots, snaps_to_destroy, pending,
                 tiers, createReqs, listReqs, destroyReqs, crashedBy>>

\* one turn of the loop of prune_snapshots up to the first destroy:
\* get_managed_snapshots, apply_retention_policy, the start of execute_prune
PruneDataset ==
  /\ pc = "prune"
  /\ i <= Len(Datasets(CONFIG))
  /\ LET dataset == Datasets(CONFIG)[i] IN
     \E storeOk \in BOOLEAN :
       LET r == run_zfs_command("list", CONFIG, storeOk)
           found == get_managed_snapshots(dataset, StoreList(store, dataset), CONFIG)
           doomed == apply_retention_policy(found, CONFIG)
       IN
       /\ listReqs' = Append(listReqs, [dataset |-> dataset, ok |-> ~r.isNone])
       /\ IF ListUnpackFails(r)
          THEN /\ pc' = "crashed"
               /\ crashedBy' = "list"
               /\ UNCHANGED <<i, all_snapshots, snaps_to_destroy, pending, tiers>>
          ELSE /\ crashedBy' = crashedBy
               /\ all_snapshots' = found
               /\ IF found = <<>>
                  THEN /\ i' = i + 1
                       /\ pc' = pc
                       /\ UNCHANGED <<snaps_to_destroy, pending, tiers>>
                  ELSE /\ snaps_to_destroy' = doomed
                       /\ tiers' = RetentionTiers(found, CONFIG)
                       /\ pending' = doomed
                       /\ IF doomed = {}
                          THEN i' = i + 1 /\ pc' = pc
                          ELSE i' = i /\ pc' = "destroy"
  /\ UNCHANGED <<CONFIG, store, now, createReqs, destroyReqs>>

\* one turn of the loop of execute_prune; a set is visited in no fixed order
DestroySnapshot ==
  /\ pc = "destroy"
  /\ \E snap_name \in pending, storeOk \in BOOLEAN :
       /\ storeOk => snap_name \in Range(store)
       /\ LET r == run_zfs_command("destroy", CONFIG, storeOk) IN
          /\ destroyReqs' = destroyReqs \cup
               {[name |-> snap_name, contacted |-> r.contacted,
                 success |-> r.success]}
          /\ store' = IF r.contacted /\ storeOk
                      THEN Filter(store, Range(store) \ {snap_name}) ELSE store
          /\ pending' = pending \ {snap_name}
          /\ IF DestroyUnpackFails(r)
             THEN pc' = "crashed" /\ crashedBy' = "destroy" /\ i' = i
             ELSE /\ crashedBy' = crashedBy
                  /\ IF pending' = {}
                     THEN pc' = "prune" /\ i' = i + 1
                     ELSE pc' = pc /\ i' = i
  /\ UNCHANGED <<CONFIG, now, all_snapshots, snaps_to_destroy, tiers,
                 createReqs, listReqs>>

\* prune_snapshots returns and main ends
PruneFinished ==
  /\ pc = "prune"
  /\ i > Len(Datasets(CONFIG))
  /\ pc' = "done"
  /\ UNCHANGED <<CONFIG, store, now, i, all_snapshots, snaps_to_destroy,
                 pending, tiers, createReqs, listReqs, destroyReqs, crashedBy>>

Next ==
  \/ CreateSnapshot
  \/ CreateFinished
  \/ PruneDataset
  \/ DestroySnapshot
  \/ PruneFinished

Spec == Init /\ [][Next]_vars

----------------------------------------------------------------------------
(* The retention policy on its own: decide, destroy what was decided with  *)
(* every destroy succeeding, list again, decide again                      *)

MaxKeep == 2

MaxSnaps == 16

PolicySnapshots ==
  << Named(TANK,  Prefix, <<2025, 11, 29, 0, 0>>),     \* a Saturday
     Named(TANK,  Prefix, <<2025, 11, 30, 0, 0>>),     \* the Sunday after
     Named(TANK,  Prefix, <<2025, 12, 1, 0, 0>>),      \* the Monday after
     Named(TANK,  Prefix, <<2025, 12, 31, 23, 59>>),   \* a Wednesday
     Named(TANK,  Prefix, <<2026, 1, 1, 0, 0>>),       \* the Thursday after
     Named(CHILD, Prefix, <<2026, 1, 1, 0, 0>>),       \* made in the same minute
     Named(TANK,  Prefix, <<2026, 1, 4, 0, 0>>) >>     \* the first Sunday of 2026

FromOrdinal(n) ==
  CHOOSE f \in {<<y, m, d, 2, 0>> : y \in 2025..2026, m \in 1..12, d \in 1..31} :
    f[3] <= DaysInMonth(f[1], f[2]) /\ toordinal(f) = n

\* n snapshots five days apart, the oldest of 2025-11-20
EveryFiveDays(n) ==
  [k \in 1..n |->
     Named(TANK, Prefix,
           FromOrdinal(toordinal(<<2025, 11, 20, 2, 0>>) + 5 * (k - 1)))]

PolicyStores ==
  {Filter(PolicySnapshots, e) : e \in SUBSET Range(PolicySnapshots)}
  \cup {EveryFiveDays(n) : n \in 8..MaxSnaps}

PolicyRetentionOptions ==
  {EmptyDict} \cup
  {"retention" :> r :
     r \in UNION {[K -> 0..MaxKeep] : K \in SUBSET {"daily", "weekly", "monthly"}}}

PolicyConfigs ==
  {[snapshot_prefix |-> Prefix, datasets |-> <<TANK>>, dry_run |-> FALSE] @@ r :
     r \in PolicyRetentionOptions}

InitPolicy ==
  /\ CONFIG \in PolicyConfigs
  /\ store \in PolicyStores
  /\ now = <<2026, 2, 28, 0, 0, 0>>
  /\ pc = "policy"
  /\ i = 1
  /\ all_snapshots = get_managed_snapshots(TANK, StoreList(store, TANK), CONFIG)
  /\ snaps_to_destroy = {}
  /\ pending = {}
  /\ tiers = NoTiers
  /\ createReqs = <<>>
  /\ listReqs = <<[dataset |-> TANK, ok |-> TRUE]>>
  /\ destroyReqs = {}
  /\ crashedBy = ""

\* apply_retention_policy(all_snapshots)
Decide ==
  /\ pc = "policy"
  /\ snaps_to_destroy' = apply_retention_policy(all_snapshots, CONFIG)
  /\ tiers' = RetentionTiers(all_snapshots, CONFIG)
  /\ pc' = "decided"
  /\ UNCHANGED <<CONFIG, store, now, i, all_snapshots, pending, createReqs,
                 listReqs, destroyReqs, crashedBy>>

\* execute_prune with every destroy succeeding, then get_managed_snapshots anew
Rederive ==
  /\ pc = "decided"
  /\ i = 1
  /\ destroyReqs' = {[name |-> n, contacted |-> TRUE, success |-> TRUE] :
                       n \in snaps_to_destroy}
  /\ store' = Filter(store, Range(store) \ snaps_to_destroy)
  /\ all_snapshots' = get_managed_snapshots(TANK, StoreList(store', TANK), CONFIG)
  /\ listReqs' = Append(listReqs, [dataset |-> TANK, ok |-> TRUE])
  /\ i' = 2
  /\ pc' = "policy"
  /\ UNCHANGED <<CONFIG, now, snaps_to_destroy, pending, tiers, createReqs,
                 crashedBy>>

NextPolicy ==
  \/ Decide
  \/ Rederive

SpecPolicy == InitPolicy /\ [][NextPolicy]_vars

----------------------------------------------------------------------------
(* What the properties speak of *)

DryRunOn == "dry_run" \notin DOMAIN CONFIG \/ CONFIG["dry_run"] = TRUE

DryRunOff == "dry_run" \in DOMAIN CONFIG /\ CONFIG["dry_run"] = FALSE

Retention == IF "retention" \in DOMAIN CONFIG THEN CONFIG["retention"] ELSE EmptyDict

CountDaily == IF "daily" \in DOMAIN Retention THEN Retention["daily"] ELSE 7

CountWeekly == IF "weekly" \in DOMAIN Retention THEN Retention["weekly"] ELSE 4

CountMonthly == IF "monthly" \in DOMAIN Retention THEN Retention["monthly"] ELSE 3

\* the naming grammar <dataset>@<prefix>_<YYYY-MM-DD-HHMM>
IsTimestamp(tok) ==
  /\ Len(tok.ts) = 5
  /\ tok.ts[1] \in 1..9999
  /\ tok.ts[2] \in 1..12
  /\ tok.ts[3] \in 1..DaysInMonth(tok.ts[1], tok.ts[2])
  /\ tok.ts[4] \in 0..23
  /\ tok.ts[5] \in 0..59

IsManagedName(n) ==
  \E a \in 1..Len(n) :
    /\ n[a] = AT
    /\ \A j \in 1..Len(n) : n[j] = AT => j = a
    /\ Len(n) = a + Len(CONFIG.snapshot_prefix) + 2
    /\ SubSeq(n, a + 1, Len(n) - 2) = CONFIG.snapshot_prefix
    /\ US \notin Range(CONFIG.snapshot_prefix)
    /\ n[Len(n) - 1] = US
    /\ IsTimestamp(n[Len(n)])

DatasetOf(n) == SubSeq(n, 1, Min(Positions(n, AT)) - 1)

DtOf(n) == n[Len(n)].ts

Managed == Names(all_snapshots)

KeepSet == Managed \ snaps_to_destroy

Handled ==
  Managed \cup tiers.daily \cup tiers.weekly \cup tiers.monthly
    \cup snaps_to_destroy \cup {r.name : r \in destroyReqs}

SentToStore == {r.name : r \in {q \in destroyReqs : q.contacted}}

Last(seq) == seq[Len(seq)]

----------------------------------------------------------------------------
(* The run *)

\* C1: with dry_run true or absent every destroy call returns success without
\* reaching the Store, and no step of the run removes a name from the Store
C1_DryRunNeverDestroys ==
  /\ [](DryRunOn => \A r \in destroyReqs : ~r.contacted /\ r.success)
  /\ [][DryRunOn => Range(store) \subseteq Range(store')]_vars

C1_Witness ==
  /\ "dry_run" \notin DOMAIN CONFIG
  /\ pc = "done"
  /\ Cardinality(destroyReqs) >= 2

C3_ListFailureIsPerDataset ==
  (listReqs # <<>> /\ ~Last(listReqs).ok) =>
     (pc \in {"prune", "done"} /\ all_snapshots = <<>>)

\* C4: once create_snapshots is over, every configured dataset has received
\* exactly one create request, whichever of them failed
C4_EveryDatasetGetsOneCreate ==
  pc # "create" =>
    /\ Len(createReqs) = Len(Datasets(CONFIG))
    /\ \A k \in 1..Len(createReqs) :
         createReqs[k] = SnapshotName(Datasets(CONFIG)[k], CONFIG, now)

\* C5: with dry_run false every name of the destroy-set that the loop has
\* passed was sent to the Store, the loop is left only with nothing pending,
\* and no destroy outcome stops the run: the next dataset follows
C5_DestroyFailureNeverAborts ==
  /\ [](DryRunOff =>
          /\ (snaps_to_destroy \ pending) \subseteq SentToStore
          /\ pc # "destroy" => pending = {})
  /\ [][(DryRunOff /\ pc = "destroy") =>
          \/ pc' = "destroy" /\ i' = i
          \/ pc' = "prune" /\ i' = i + 1]_vars

C5_Witness ==
  /\ DryRunOff
  /\ pc = "done"
  /\ Cardinality(destroyReqs) >= 2
  /\ \A r \in destroyReqs : ~r.success
  /\ Len(listReqs) = 2

\* C10: the managed set of a dataset holds only snapshots of that dataset
C10_ManagedSetScopedToDataset ==
  (pc \in {"prune", "destroy", "done"} /\ listReqs # <<>>) =>
     \A n \in Managed : DatasetOf(n) = Last(listReqs).dataset

----------------------------------------------------------------------------
(* The retention policy *)

DtIn(n) == (CHOOSE it \in Range(all_snapshots) : it[1] = n)[2]

MonthOf(n) == <<DtIn(n)[1], DtIn(n)[2]>>

MonthBefore(a, b) == a[1] < b[1] \/ (a[1] = b[1] /\ a[2] < b[2])

\* the m most recent of the months that hold a managed snapshot
RecentMonths(m) ==
  {mo \in {MonthOf(n) : n \in Managed} :
     Cardinality({x \in {MonthOf(n) : n \in Managed} : MonthBefore(mo, x)}) < m}

\* K is one snapshot of each of the m most recent months, none newer in its month
NewestOfRecentMonths(K, m) ==
  /\ K \subseteq Managed
  /\ \A n \in K :
       /\ MonthOf(n) \in RecentMonths(m)
       /\ \A x \in Managed : MonthOf(x) = MonthOf(n) => ~DtLess(DtIn(n), DtIn(x))
  /\ \A mo \in RecentMonths(m) : Cardinality({n \in K : MonthOf(n) = mo}) = 1

\* the Monday that opens the ISO week of a snapshot: the ISO year-week names it
IsoWeekOf(n) == toordinal(DtIn(n)) - weekday(DtIn(n))

SecondPassDone == pc = "decided" /\ i = 2

\* C6: deciding again on what the first decision left, every destroy having
\* succeeded, gives the empty destroy-set
C6_PruneIdempotent == SecondPassDone => snaps_to_destroy = {}

C6_Witness ==
  /\ SecondPassDone
  /\ destroyReqs # {}
  /\ \E a \in Managed, b \in Managed : a # b /\ DtIn(a) = DtIn(b)

\* C7 as stated: the keep-set never has more than daily + weekly + monthly
\* snapshots, the counts being 7, 4 and 3 where the configuration has none
C7_KeepSetBounded_AnyConfig ==
  pc = "decided" =>
    Cardinality(KeepSet) <= CountDaily + CountWeekly + CountMonthly

\* C7, amended: the same, for a retention configuration that is present and
\* not empty
C7_KeepSetBounded ==
  (pc = "decided" /\ DOMAIN Retention # {}) =>
    Cardinality(KeepSet) <= CountDaily + CountWeekly + CountMonthly

C7_Witness ==
  /\ pc = "decided"
  /\ DOMAIN Retention # {}
  /\ "daily" \notin DOMAIN Retention
  /\ Cardinality(KeepSet) > 7
  /\ snaps_to_destroy # {}

\* C8 as stated: with daily = 0 and monthly = m and nothing else configured the
\* keep-set is the newest snapshot of each of the m most recent months
C8_MonthlyOnly_WeeklyAbsent ==
  (pc = "decided" /\ DOMAIN Retention = {"daily", "monthly"}
     /\ Retention["daily"] = 0) =>
    NewestOfRecentMonths(KeepSet, Retention["monthly"])

\* C8, amended: with daily = 0, weekly = 0 and monthly = m the keep-set is the
\* newest snapshot of each of the m most recent months
C8_MonthlyOnly ==
  (pc = "decided" /\ DOMAIN Retention = {"daily", "weekly", "monthly"}
     /\ Retention["daily"] = 0 /\ Retention["weekly"] = 0) =>
    NewestOfRecentMonths(KeepSet, Retention["monthly"])

\* Scenario B: ten snapshots over three months, monthly = 2
C8_Witness ==
  /\ pc = "decided"
  /\ i = 1
  /\ Retention = [daily |-> 0, weekly |-> 0, monthly |-> 2]
  /\ Cardinality(Managed) = 10
  /\ Cardinality({MonthOf(n) : n \in Managed}) = 3
  /\ Cardinality(KeepSet) = 2

\* C9: the weekly rule buckets by ISO year-week: it keeps no two snapshots of
\* one ISO week (Monday to Sunday, across a change of year too) and opens no
\* more than weekly buckets
C9_WeeklyBucketsAreIsoWeeks ==
  pc = "decided" =>
    /\ Cardinality(tiers.weekly) <= CountWeekly
    /\ \A a \in tiers.weekly, b \in tiers.weekly :
         a # b => IsoWeekOf(a) # IsoWeekOf(b)

====
